---- MODULE Spec2Model ----
(***************************************************************************)
(* Authentication core of the Artist/Song services: the shared auth_lib    *)
(* (users, refresh_tokens, JWT codec) and the two sets of handlers that    *)
(* use it, fastDataApi/app/routers (svc = "fast") and                      *)
(* flaskDataApi/app/routes (svc = "flask").  Both services talk to the     *)
(* same auth database, so one store is shared by every request.            *)
(*                                                                         *)
(* A handler is split at its database commits: the statements up to the    *)
(* first commit (the queries and checks) are one step, each commit is one  *)
(* step.  Requests of different slots interleave between steps.  The step  *)
(* that ends a request leaves its response in resp until Deliver takes it  *)
(* away; Deliver changes nothing else and is always possible, so it        *)
(* restricts no interleaving of the handlers' steps.                       *)
(***************************************************************************)
EXTENDS Integers, FiniteSets, Sequences, TLC

\* ---------------------------------------------------------------- bounds
\* Spec: the authentication service, one request at a time, the clock running
MaxTime == 2        \* the clock runs 0..MaxTime
MaxUsers == 2       \* users rows ever created, the seeded one included
MaxRecs == 2        \* refresh_tokens rows ever created
\* SpecGate: the gate and the admin user management, one request at a time
MaxTimeGate == 1
MaxUsersGate == 2
MaxRecsGate == 2
\* SpecConc: two requests of the authentication service at a time
MaxUsersConc == 2
MaxRecsConc == 3
\* SpecDelete: two requests at a time, with delete_user
MaxUsersDelete == 2
MaxRecsDelete == 3
\* SpecAdmin: two requests at a time, with the admin user management
MaxUsersAdmin == 3
MaxRecsAdmin == 1

MaxArtists == 2     \* Artist ids requested and created
MaxSongs == 2       \* Song ids requested and created

MaxArtistsList == 3
MaxSongsList == 3
MaxPage == 3        \* pages requested: 0..MaxPage

MaxArtistsConc == 1
MaxSongsConc == 2

Procs == {"p1", "p2"}              \* concurrent request slots
Services == {"fast", "flask"}
Usernames == {"admin", "alice"}
Emails == {"admin@x.com", "alice@x.com"}
RegPasswords == {"Passw0rd"}
LoginPasswords == {"Passw0rd", "wrongpass"}

\* ------------------------------------------------------ program constants
\* Token lifetimes in clock units (the source: 15 minutes and 7 days; the
\* model keeps their order, not their ratio).
ACCESS_TOKEN_EXPIRE == 1
REFRESH_TOKEN_EXPIRE == 2
\* timedelta(days=7) written out in the handlers for the record's expires_at
RecordExpireDays == 2

TOKEN_TYPE_ACCESS == "access"
TOKEN_TYPE_REFRESH == "refresh"
USER == "user"
ADMIN == "admin"
UserRole == {USER, ADMIN}

VARIABLES
    users,           \* table users: set of rows
    refresh_tokens,  \* table refresh_tokens: set of rows
    now,             \* datetime.utcnow()
    nextUser,        \* next fresh uuid4 for a users row
    nextRec,         \* next fresh uuid4 / jti for a refresh_tokens row
    issued,          \* tokens that were returned to a caller
    req,             \* req[p]: the request slot p is handling
    resp,            \* the response sent by the step just taken, if any
    derived,         \* history: <<parent record id, record id>> per rotation
    used,            \* history: refresh tokens a Refresh succeeded with
    registered,      \* history: ids of users created by Register
    roleEdited,      \* history: ids of users whose role an admin update set
    artists,         \* table Artist: set of rows
    songs,           \* table Song: set of rows
    nextArtist,      \* next IDENTITY value of Artist.id
    nextSong         \* next IDENTITY value of Song.id

vars == <<users, refresh_tokens, now, nextUser, nextRec, issued, req,
          resp, derived, used, registered, roleEdited, artists, songs,
          nextArtist, nextSong>>

store == <<users, refresh_tokens>>
hist == <<derived, used, registered, roleEdited>>
\* the Artist/Song database of the data services
catalog == <<artists, songs, nextArtist, nextSong>>

\* ------------------------------------------------------------ auth_lib
hash_password(password) == <<"bcrypt", password>>

verify_password(plain_password, hashed_password) ==
    hashed_password = <<"bcrypt", plain_password>>

create_access_token(user_id, username, role, t) ==
    [type |-> TOKEN_TYPE_ACCESS, sub |-> user_id, username |-> username,
     role |-> role, exp |-> t + ACCESS_TOKEN_EXPIRE, jti |-> 0, sig |-> "ok"]

\* the token; its hash is get_token_hash of it
create_refresh_token(user_id, jti, t) ==
    [type |-> TOKEN_TYPE_REFRESH, sub |-> user_id, username |-> "",
     role |-> "", exp |-> t + REFRESH_TOKEN_EXPIRE, jti |-> jti, sig |-> "ok"]

\* SHA-256 of the token string: deterministic, and distinct strings have
\* distinct digests
get_token_hash(token) == <<"sha256", token>>

\* a decoder for which a token is still good at its exp
decode_token_late(token, t) ==
    IF token.sig # "ok" THEN "invalid"
    ELSE IF token.exp < t THEN "expired"
    ELSE "ok"

\* decode_token: "ok", "expired" (ExpiredToken) or "invalid" (InvalidToken).
\* jwt.decode checks the signature first, then exp (expired when now >= exp).
decode_token(token, t) ==
    IF token.sig # "ok" THEN "invalid"
    ELSE IF token.exp <= t THEN "expired"
    ELSE "ok"

\* a verification that does not look at the type claim
verify_token_untyped(token, token_type, t) == decode_token(token, t)

verify_token(token, token_type, t) ==
    IF decode_token(token, t) # "ok" THEN decode_token(token, t)
    ELSE IF token.type # token_type THEN "invalid"
    ELSE "ok"

\* is_valid without the revoked flag
is_valid_unrevoked(rec, t) == rec.expires_at > t

\* RefreshToken.is_valid
is_valid(rec, t) == ~rec.revoked /\ rec.expires_at > t

\* a token signed with another key, as an attacker or a broken client sends
Forged ==
    [type |-> TOKEN_TYPE_REFRESH, sub |-> 1, username |-> "", role |-> "",
     exp |-> MaxTime + REFRESH_TOKEN_EXPIRE + 1, jti |-> 0, sig |-> "bad"]

\* what a caller can put into a request
Presentable == issued \cup {Forged}

\* the access tokens among them
AccessTokens == {t \in issued : t.type = TOKEN_TYPE_ACCESS}

\* ------------------------------------------------------------- queries
UserByName(u) == {r \in users : r.username = u}
UserByEmail(e) == {r \in users : r.email = e}
UserById(id) == {r \in users : r.id = id}
RecByHashUser(h, uid) ==
    {r \in refresh_tokens : r.token_hash = h /\ r.user_id = uid}
RecByHash(h) == {r \in refresh_tokens : r.token_hash = h}
RecById(id) == {r \in refresh_tokens : r.id = id}

\* ------------------------------------------------------- request slots
Idle == [pc |-> "idle"]
NoResp == [op |-> "none"]
NoBody == [none |-> TRUE]

Response(p, op, svc, in, status, detail, body) ==
    [op |-> op, svc |-> svc, in |-> in, status |-> status,
     detail |-> detail, body |-> body]

\* slot p is free, and the last response has been delivered
Ready(p) == resp = NoResp /\ req[p] = Idle

\* the request of slot p is at the step named pc
At(p, pc) == resp = NoResp /\ req[p].pc = pc

\* the request of slot p ends with response r
Reply(p, r) ==
    /\ req' = [req EXCEPT ![p] = Idle]
    /\ resp' = r

\* the request of slot p goes on from state s
Continue(p, s) ==
    /\ req' = [req EXCEPT ![p] = s]
    /\ resp' = NoResp

\* a users table without the unique constraints
NoUniqueConstraint(username, email, exceptId) == FALSE

\* the unique constraints of users.username and users.email, as the
\* database checks them when a row with these values is written; exceptId
\* is the id of the row being updated (0 for an insert)
UniqueViolation(username, email, exceptId) ==
    \E r \in users :
        /\ r.id # exceptId
        /\ (r.username = username \/ r.email = email)

\* the seeded administrator (created out of band: Register never makes one)
SeedAdmin ==
    [id |-> 1, username |-> "admin", email |-> "admin@x.com",
     password_hash |-> hash_password("Passw0rd"), role |-> ADMIN,
     is_active |-> TRUE]

Init ==
    /\ users = {SeedAdmin}
    /\ refresh_tokens = {}
    /\ now = 0
    /\ nextUser = 2
    /\ nextRec = 1
    /\ issued = {}
    /\ req = [p \in Procs |-> Idle]
    /\ resp = NoResp
    /\ derived = {}
    /\ used = {}
    /\ registered = {}
    /\ roleEdited = {}
    /\ artists = {}
    /\ songs = {}
    /\ nextArtist = 1
    /\ nextSong = 1

\* ------------------------------------------------------------ Register
\* register, up to the first commit: the two existence queries
RegisterBegin(p, svc, username, email, password) ==
    /\ Ready(p)
    /\ LET in == [username |-> username, email |-> email,
                  password |-> password]
       IN IF UserByName(username) # {}
          THEN Reply(p, Response(p, "register", svc, in, 400,
                                 "Username already registered", NoBody))
          ELSE IF UserByEmail(email) # {}
          THEN Reply(p, Response(p, "register", svc, in, 400,
                                 "Email already registered", NoBody))
          ELSE Continue(p, [pc |-> "reg_user", op |-> "register",
                            svc |-> svc, in |-> in])
    /\ UNCHANGED <<users, refresh_tokens, now, nextUser, nextRec, issued,
                   hist, catalog>>

\* a register that makes administrators
RegisterRoleAdmin == ADMIN

\* the role register gives the new user
RegisterRole == USER

\* db.add(new_user); db.commit(); db.refresh(new_user); the two tokens are
\* minted.  The unique constraints on username and email are checked by the
\* database at the commit.  In the FastAPI handler the next statement,
\* datetime.timedelta(days=7) on the class datetime.datetime, raises
\* AttributeError: the request ends with 500 after the user was committed.
RegisterCommitUser(p) ==
    /\ At(p, "reg_user")
    /\ LET r == req[p]
           row == [id |-> nextUser, username |-> r.in.username,
                   email |-> r.in.email,
                   password_hash |-> hash_password(r.in.password),
                   role |-> RegisterRole, is_active |-> TRUE]
       IN IF UniqueViolation(row.username, row.email, 0)
          THEN /\ Reply(p, Response(p, "register", r.svc, r.in, 500,
                                    "IntegrityError", NoBody))
               /\ UNCHANGED <<users, nextUser, registered>>
          ELSE /\ users' = users \cup {row}
               /\ nextUser' = nextUser + 1
               /\ registered' = registered \cup {row.id}
               /\ IF r.svc = "fast"
                  THEN Reply(p, Response(p, "register", r.svc, r.in, 500,
                                         "AttributeError", NoBody))
                  ELSE Continue(p, [pc |-> "reg_token", op |-> "register",
                           svc |-> r.svc, in |-> r.in, uid |-> row.id,
                           access |-> create_access_token(row.id,
                                         row.username, row.role, now),
                           minted |-> now])
    /\ UNCHANGED <<refresh_tokens, now, nextRec, issued, derived, used,
                   roleEdited, catalog>>

\* db.add(refresh_token_record); db.commit(); return 201 (Flask).  The
\* foreign key refresh_tokens.user_id -> users.id is checked at the commit.
RegisterCommitToken(p) ==
    /\ At(p, "reg_token")
    /\ LET r == req[p]
           tok == create_refresh_token(r.uid, nextRec, r.minted)
           rec == [id |-> nextRec, user_id |-> r.uid,
                   token_hash |-> get_token_hash(tok),
                   expires_at |-> now + RecordExpireDays,
                   revoked |-> FALSE]
       IN IF UserById(r.uid) = {}
          THEN /\ Reply(p, Response(p, "register", r.svc, r.in, 500,
                                    "IntegrityError", NoBody))
               /\ UNCHANGED <<refresh_tokens, nextRec, issued>>
          ELSE /\ refresh_tokens' = refresh_tokens \cup {rec}
               /\ nextRec' = nextRec + 1
               /\ issued' = issued \cup {r.access, tok}
               /\ Reply(p, Response(p, "register", r.svc, r.in, 201, "",
                          [access_token |-> r.access,
                           refresh_token |-> tok]))
    /\ UNCHANGED <<catalog, users, now, nextUser, hist>>

\* --------------------------------------------------------------- Login
\* a login that does not look at is_active
LoginCheckNoActive(svc, rows, password) ==
    IF rows = {}
    THEN [status |-> 401, detail |-> "Invalid username or password"]
    ELSE LET user == CHOOSE r \in rows : TRUE
         IN IF ~verify_password(password, user.password_hash)
            THEN [status |-> 401, detail |-> "Invalid username or password"]
            ELSE [status |-> 0, detail |-> ""]

\* a login that tells a missing user from a wrong password
LoginCheckLeaky(svc, rows, password) ==
    IF rows = {}
    THEN [status |-> 404, detail |-> "User not found"]
    ELSE LET user == CHOOSE r \in rows : TRUE
         IN IF ~verify_password(password, user.password_hash)
            THEN [status |-> 401, detail |-> "Invalid username or password"]
            ELSE IF ~user.is_active
            THEN [status |-> 403, detail |-> "Account is disabled"]
            ELSE [status |-> 0, detail |-> ""]

\* the checks of login on the rows its query found: the response that ends
\* the request, or status 0 when the handler goes on to issue tokens
LoginCheck(svc, rows, password) ==
    IF rows = {}
    THEN [status |-> 401, detail |-> "Invalid username or password"]
    ELSE LET user == CHOOSE r \in rows : TRUE
         IN IF ~verify_password(password, user.password_hash)
            THEN [status |-> 401, detail |-> "Invalid username or password"]
            ELSE IF ~user.is_active
            THEN [status |-> 403, detail |-> "Account is disabled"]
            ELSE [status |-> 0, detail |-> ""]

\* login up to its commit: the query, the checks, the two tokens minted.
\* The FastAPI handler then evaluates datetime.timedelta(days=7) and ends
\* with AttributeError (500), nothing written.
LoginBegin(p, svc, username, password) ==
    /\ Ready(p)
    /\ LET in == [username |-> username, password |-> password]
           rows == UserByName(username)
           chk == LoginCheck(svc, rows, password)
           user == CHOOSE r \in rows : TRUE
       IN IF chk.status # 0
          THEN Reply(p, Response(p, "login", svc, in, chk.status,
                                 chk.detail, NoBody))
          ELSE IF svc = "fast"
          THEN Reply(p, Response(p, "login", svc, in, 500,
                                 "AttributeError", NoBody))
          ELSE Continue(p, [pc |-> "login_token", op |-> "login",
                   svc |-> svc, in |-> in, uid |-> user.id,
                   access |-> create_access_token(user.id, user.username,
                                                  user.role, now),
                   minted |-> now])
    /\ UNCHANGED <<users, refresh_tokens, now, nextUser, nextRec, issued,
                   hist, catalog>>

\* db.add(refresh_token_record); db.commit(); return 200 (Flask)
LoginCommit(p) ==
    /\ At(p, "login_token")
    /\ LET r == req[p]
           tok == create_refresh_token(r.uid, nextRec, r.minted)
           rec == [id |-> nextRec, user_id |-> r.uid,
                   token_hash |-> get_token_hash(tok),
                   expires_at |-> now + RecordExpireDays,
                   revoked |-> FALSE]
       IN IF UserById(r.uid) = {}
          THEN /\ Reply(p, Response(p, "login", r.svc, r.in, 500,
                                    "IntegrityError", NoBody))
               /\ UNCHANGED <<refresh_tokens, nextRec, issued>>
          ELSE /\ refresh_tokens' = refresh_tokens \cup {rec}
               /\ nextRec' = nextRec + 1
               /\ issued' = issued \cup {r.access, tok}
               /\ Reply(p, Response(p, "login", r.svc, r.in, 200, "",
                          [access_token |-> r.access,
                           refresh_token |-> tok]))
    /\ UNCHANGED <<catalog, users, now, nextUser, hist>>

\* ------------------------------------------------------------- Refresh
\* the checks of refresh_token_endpoint before the rotation: the response
\* that ends the request, or status 0.  The FastAPI handler raises
\* HTTPException inside its own try block, whose except clause answers
\* every exception with "Invalid refresh token".
RefreshCheck(svc, token, t) ==
    LET recs == RecByHashUser(get_token_hash(token), token.sub)
        rows == UserById(token.sub)
    IN IF verify_token(token, TOKEN_TYPE_REFRESH, t) # "ok"
       THEN [status |-> 401, detail |-> "Invalid refresh token"]
       ELSE IF recs = {} \/ \E r \in recs : ~is_valid(r, t)
       THEN [status |-> 401,
             detail |-> IF svc = "fast" THEN "Invalid refresh token"
                        ELSE "Invalid or expired refresh token"]
       ELSE IF rows = {} \/ \E u \in rows : ~u.is_active
       THEN [status |-> 401,
             detail |-> IF svc = "fast" THEN "Invalid refresh token"
                        ELSE "User not found or inactive"]
       ELSE [status |-> 0, detail |-> ""]

\* a refresh whose failing FastAPI path keeps the revocation it made in
\* the session
RefreshBeginRevokeKept(p, svc, token) ==
    /\ Ready(p)
    /\ LET in == [token |-> token, afterUse |-> token \in used]
           chk == RefreshCheck(svc, token, now)
           rec == CHOOSE r \in RecByHashUser(get_token_hash(token),
                                             token.sub) : TRUE
           user == CHOOSE u \in UserById(token.sub) : TRUE
       IN IF chk.status # 0
          THEN /\ Reply(p, Response(p, "refresh", svc, in, chk.status,
                                    chk.detail, NoBody))
               /\ UNCHANGED refresh_tokens
          ELSE IF svc = "fast"
          THEN /\ Reply(p, Response(p, "refresh", svc, in, 401,
                                    "Invalid refresh token", NoBody))
               /\ refresh_tokens' =
                     {IF x.id = rec.id THEN [x EXCEPT !.revoked = TRUE]
                      ELSE x : x \in refresh_tokens}
          ELSE /\ Continue(p, [pc |-> "refresh_commit", op |-> "refresh",
                   svc |-> svc, in |-> in, rid |-> rec.id, uid |-> user.id,
                   access |-> create_access_token(user.id, user.username,
                                                  user.role, now),
                   minted |-> now])
               /\ UNCHANGED refresh_tokens
    /\ UNCHANGED <<catalog, users, now, nextUser, nextRec, issued, hist>>

\* refresh up to its commit.  After the checks the FastAPI handler sets
\* revoked on the loaded record, mints the tokens and evaluates
\* datetime.timedelta(days=7): AttributeError, caught by the except clause
\* (401); the session is closed without a commit, nothing is written.
RefreshBegin(p, svc, token) ==
    /\ Ready(p)
    /\ LET in == [token |-> token, afterUse |-> token \in used]
           chk == RefreshCheck(svc, token, now)
           rec == CHOOSE r \in RecByHashUser(get_token_hash(token),
                                             token.sub) : TRUE
           user == CHOOSE u \in UserById(token.sub) : TRUE
       IN IF chk.status # 0
          THEN Reply(p, Response(p, "refresh", svc, in, chk.status,
                                 chk.detail, NoBody))
          ELSE IF svc = "fast"
          THEN Reply(p, Response(p, "refresh", svc, in, 401,
                                 "Invalid refresh token", NoBody))
          ELSE Continue(p, [pc |-> "refresh_commit", op |-> "refresh",
                   svc |-> svc, in |-> in, rid |-> rec.id, uid |-> user.id,
                   access |-> create_access_token(user.id, user.username,
                                                  user.role, now),
                   minted |-> now])
    /\ UNCHANGED <<users, refresh_tokens, now, nextUser, nextRec, issued,
                   hist, catalog>>

\* a rotation that inserts the new record and leaves the old one as it is
RefreshCommitNoRevoke(p) ==
    /\ At(p, "refresh_commit")
    /\ LET r == req[p]
           tok == create_refresh_token(r.uid, nextRec, r.minted)
           rec == [id |-> nextRec, user_id |-> r.uid,
                   token_hash |-> get_token_hash(tok),
                   expires_at |-> now + RecordExpireDays,
                   revoked |-> FALSE]
       IN IF RecById(r.rid) = {} \/ UserById(r.uid) = {}
          THEN /\ Reply(p, Response(p, "refresh", r.svc, r.in, 401,
                                    "Invalid refresh token", NoBody))
               /\ UNCHANGED <<refresh_tokens, nextRec, issued, derived,
                              used>>
          ELSE /\ refresh_tokens' = refresh_tokens \cup {rec}
               /\ nextRec' = nextRec + 1
               /\ issued' = issued \cup {r.access, tok}
               /\ derived' = derived \cup {<<r.rid, rec.id>>}
               /\ used' = used \cup {r.in.token}
               /\ Reply(p, Response(p, "refresh", r.svc, r.in, 200, "",
                          [access_token |-> r.access,
                           refresh_token |-> tok]))
    /\ UNCHANGED <<catalog, users, now, nextUser, registered, roleEdited>>

\* db.commit() of the rotation (Flask): UPDATE refresh_tokens SET revoked
\* WHERE id = rid, INSERT of the new record.  A vanished record or user
\* fails the commit; the except clause answers 401.
RefreshCommit(p) ==
    /\ At(p, "refresh_commit")
    /\ LET r == req[p]
           tok == create_refresh_token(r.uid, nextRec, r.minted)
           rec == [id |-> nextRec, user_id |-> r.uid,
                   token_hash |-> get_token_hash(tok),
                   expires_at |-> now + RecordExpireDays,
                   revoked |-> FALSE]
       IN IF RecById(r.rid) = {} \/ UserById(r.uid) = {}
          THEN /\ Reply(p, Response(p, "refresh", r.svc, r.in, 401,
                                    "Invalid refresh token", NoBody))
               /\ UNCHANGED <<refresh_tokens, nextRec, issued, derived,
                              used>>
          ELSE /\ refresh_tokens' =
                     {IF x.id = r.rid THEN [x EXCEPT !.revoked = TRUE]
                      ELSE x : x \in refresh_tokens} \cup {rec}
               /\ nextRec' = nextRec + 1
               /\ issued' = issued \cup {r.access, tok}
               /\ derived' = derived \cup {<<r.rid, rec.id>>}
               /\ used' = used \cup {r.in.token}
               /\ Reply(p, Response(p, "refresh", r.svc, r.in, 200, "",
                          [access_token |-> r.access,
                           refresh_token |-> tok]))
    /\ UNCHANGED <<catalog, users, now, nextUser, registered, roleEdited>>

\* -------------------------------------------------------------- Logout
\* a logout that rejects a token it has no record of
LogoutStrict(p, svc, token) ==
    /\ Ready(p)
    /\ refresh_tokens' =
           {IF x.token_hash = get_token_hash(token)
            THEN [x EXCEPT !.revoked = TRUE] ELSE x : x \in refresh_tokens}
    /\ IF RecByHash(get_token_hash(token)) = {}
       THEN Reply(p, Response(p, "logout", svc, [token |-> token], 401,
                              "Invalid refresh token", NoBody))
       ELSE Reply(p, Response(p, "logout", svc, [token |-> token], 200,
                              "Logged out successfully", NoBody))
    /\ UNCHANGED <<catalog, users, now, nextUser, nextRec, issued, hist>>

\* a logout that answers and revokes nothing
LogoutNoRevoke(p, svc, token) ==
    /\ Ready(p)
    /\ Reply(p, Response(p, "logout", svc, [token |-> token], 200,
                         "Logged out successfully", NoBody))
    /\ UNCHANGED <<users, refresh_tokens, now, nextUser, nextRec, issued,
                   hist, catalog>>

\* a logout that flips the flag: a second logout un-revokes the record
LogoutToggle(p, svc, token) ==
    /\ Ready(p)
    /\ refresh_tokens' =
           {IF x.token_hash = get_token_hash(token)
            THEN [x EXCEPT !.revoked = ~x.revoked] ELSE x :
               x \in refresh_tokens}
    /\ Reply(p, Response(p, "logout", svc, [token |-> token], 200,
                         "Logged out successfully", NoBody))
    /\ UNCHANGED <<catalog, users, now, nextUser, nextRec, issued, hist>>

\* logout: the record with the token's hash, if any, is revoked; the
\* answer is the same whatever happened
Logout(p, svc, token) ==
    /\ Ready(p)
    /\ refresh_tokens' =
           {IF x.token_hash = get_token_hash(token)
            THEN [x EXCEPT !.revoked = TRUE] ELSE x : x \in refresh_tokens}
    /\ Reply(p, Response(p, "logout", svc, [token |-> token], 200,
                         "Logged out successfully", NoBody))
    /\ UNCHANGED <<catalog, users, now, nextUser, nextRec, issued, hist>>

\* -------------------------------------------------- Authorization Gate
\* a gate that does not look at is_active
AuthGateNoActive(svc, token, t) ==
    LET v == verify_token(token, TOKEN_TYPE_ACCESS, t)
        rows == UserById(token.sub)
    IN IF v = "expired"
       THEN [status |-> 401, detail |-> "Token has expired"]
       ELSE IF v = "invalid"
       THEN [status |-> 401, detail |-> "Invalid token"]
       ELSE IF rows = {}
       THEN [status |-> 401, detail |-> "User not found"]
       ELSE [status |-> 0, detail |-> ""]

\* a gate that wants a live refresh token record behind the access token
AuthGateNeedsSession(svc, token, t) ==
    LET v == verify_token(token, TOKEN_TYPE_ACCESS, t)
        rows == UserById(token.sub)
    IN IF v = "expired"
       THEN [status |-> 401, detail |-> "Token has expired"]
       ELSE IF v = "invalid"
       THEN [status |-> 401, detail |-> "Invalid token"]
       ELSE IF rows = {}
       THEN [status |-> 401, detail |-> "User not found"]
       ELSE IF \E u \in rows : ~u.is_active
       THEN [status |-> 403, detail |-> "User account is disabled"]
       ELSE IF \A r \in refresh_tokens : r.user_id = token.sub => r.revoked
       THEN [status |-> 401, detail |-> "Session ended"]
       ELSE [status |-> 0, detail |-> ""]

\* a gate that looks at is_active before it verifies the token
AuthGateActiveFirst(svc, token, t) ==
    LET v == verify_token(token, TOKEN_TYPE_ACCESS, t)
        rows == UserById(token.sub)
    IN IF \E u \in rows : ~u.is_active
       THEN [status |-> 403, detail |-> "User account is disabled"]
       ELSE IF v = "expired"
       THEN [status |-> 401, detail |-> "Token has expired"]
       ELSE IF v = "invalid"
       THEN [status |-> 401, detail |-> "Invalid token"]
       ELSE IF rows = {}
       THEN [status |-> 401, detail |-> "User not found"]
       ELSE [status |-> 0, detail |-> ""]

\* get_current_user_data + get_current_user (FastAPI), require_auth
\* (Flask): the rejection, or status 0 when the request passes
AuthGate(svc, token, t) ==
    LET v == verify_token(token, TOKEN_TYPE_ACCESS, t)
        rows == UserById(token.sub)
    IN IF v = "expired"
       THEN [status |-> 401, detail |-> "Token has expired"]
       ELSE IF v = "invalid"
       THEN [status |-> 401, detail |-> "Invalid token"]
       ELSE IF rows = {}
       THEN [status |-> 401, detail |-> "User not found"]
       ELSE IF \E u \in rows : ~u.is_active
       THEN [status |-> 403, detail |-> "User account is disabled"]
       ELSE [status |-> 0, detail |-> ""]

\* the role the role check looks at: FastAPI reads current_user.role, the
\* row just loaded; Flask reads request.role, which require_auth copied
\* from the token's claims
CheckedRole(svc, token) ==
    IF svc = "fast"
    THEN (CHOOSE u \in UserById(token.sub) : TRUE).role
    ELSE token.role

\* require_admin (allowed = {ADMIN}), require_role(allowed), and
\* require_user / require_auth alone (allowed = UserRole)
RoleGate(svc, token, allowed, t) ==
    LET g == AuthGate(svc, token, t)
    IN IF g.status # 0 THEN g
       ELSE IF CheckedRole(svc, token) \notin allowed
       THEN [status |-> 403,
             detail |-> IF allowed = {ADMIN}
                        THEN "Admin privileges required"
                        ELSE "Required role"]
       ELSE [status |-> 0, detail |-> ""]

\* a request to an endpoint behind the gate; the endpoint itself answers 200
GateRequest(p, svc, token, allowed) ==
    /\ Ready(p)
    /\ LET g == RoleGate(svc, token, allowed, now)
       IN Reply(p, Response(p, "gate", svc,
                  [token |-> token, allowed |-> allowed],
                  IF g.status = 0 THEN 200 ELSE g.status, g.detail, NoBody))
    /\ UNCHANGED <<users, refresh_tokens, now, nextUser, nextRec, issued,
                   hist, catalog>>

\* GET /auth/me.  FastAPI: behind require_user, answers the row the gate
\* loaded.  Flask: the route is not wrapped by require_auth, so nothing has
\* set request.user_id and reading it raises AttributeError (500), whatever
\* the credential.
Me(p, svc, token) ==
    /\ Ready(p)
    /\ LET in == [token |-> token]
           g == AuthGate(svc, token, now)
           user == CHOOSE u \in UserById(token.sub) : TRUE
       IN IF svc = "flask"
          THEN Reply(p, Response(p, "me", svc, in, 500, "AttributeError",
                                 NoBody))
          ELSE IF g.status # 0
          THEN Reply(p, Response(p, "me", svc, in, g.status, g.detail,
                                 NoBody))
          ELSE Reply(p, Response(p, "me", svc, in, 200, "",
                     [id |-> user.id, username |-> user.username,
                      email |-> user.email, role |-> user.role,
                      is_active |-> user.is_active]))
    /\ UNCHANGED <<users, refresh_tokens, now, nextUser, nextRec, issued,
                   hist, catalog>>

\* ------------------------------------------------ admin user management
\* create_user up to its commit (FastAPI only)
AdminCreateBegin(p, token, username, email, password, role) ==
    /\ Ready(p)
    /\ LET in == [token |-> token, username |-> username, email |-> email,
                  password |-> password, role |-> role]
           g == RoleGate("fast", token, {ADMIN}, now)
       IN IF g.status # 0
          THEN Reply(p, Response(p, "create_user", "fast", in, g.status,
                                 g.detail, NoBody))
          ELSE IF UserByName(username) # {}
          THEN Reply(p, Response(p, "create_user", "fast", in, 400,
                                 "Username already registered", NoBody))
          ELSE IF UserByEmail(email) # {}
          THEN Reply(p, Response(p, "create_user", "fast", in, 400,
                                 "Email already registered", NoBody))
          ELSE Continue(p, [pc |-> "create_commit", op |-> "create_user",
                            svc |-> "fast", in |-> in])
    /\ UNCHANGED <<users, refresh_tokens, now, nextUser, nextRec, issued,
                   hist, catalog>>

AdminCreateCommit(p) ==
    /\ At(p, "create_commit")
    /\ LET r == req[p]
           row == [id |-> nextUser, username |-> r.in.username,
                   email |-> r.in.email,
                   password_hash |-> hash_password(r.in.password),
                   role |-> r.in.role, is_active |-> TRUE]
       IN IF UniqueViolation(row.username, row.email, 0)
          THEN /\ Reply(p, Response(p, "create_user", r.svc, r.in, 500,
                                    "IntegrityError", NoBody))
               /\ UNCHANGED <<users, nextUser>>
          ELSE /\ users' = users \cup {row}
               /\ nextUser' = nextUser + 1
               /\ Reply(p, Response(p, "create_user", r.svc, r.in, 201, "",
                                    [uid |-> row.id]))
    /\ UNCHANGED <<catalog, refresh_tokens, now, nextRec, issued, hist>>

\* an Optional field of UserUpdateRequest: {} for None, {v} for the value v
Given(o, default) == IF o = {} THEN default ELSE CHOOSE v \in o : TRUE

\* update_user up to its commit: the attributes that are assigned a value
\* other than the loaded one are written by the commit
AdminUpdateBegin(p, token, uid, email, role, active) ==
    /\ Ready(p)
    /\ LET in == [token |-> token, uid |-> uid, email |-> email,
                  role |-> role, is_active |-> active]
           g == RoleGate("fast", token, {ADMIN}, now)
           rows == UserById(uid)
           user == CHOOSE u \in rows : TRUE
       IN IF g.status # 0
          THEN Reply(p, Response(p, "update_user", "fast", in, g.status,
                                 g.detail, NoBody))
          ELSE IF rows = {}
          THEN Reply(p, Response(p, "update_user", "fast", in, 404,
                                 "User not found", NoBody))
          ELSE IF \E e \in email : \E o \in UserByEmail(e) : o.id # uid
          THEN Reply(p, Response(p, "update_user", "fast", in, 400,
                                 "Email already registered", NoBody))
          ELSE Continue(p, [pc |-> "update_commit", op |-> "update_user",
                   svc |-> "fast", in |-> in,
                   set |-> [email |-> email \ {user.email},
                            role |-> role \ {user.role},
                            is_active |-> active \ {user.is_active}]])
    /\ UNCHANGED <<users, refresh_tokens, now, nextUser, nextRec, issued,
                   hist, catalog>>

\* db.commit(); db.refresh(user): UPDATE users SET ... WHERE id = uid
AdminUpdateCommit(p) ==
    /\ At(p, "update_commit")
    /\ LET r == req[p]
           rows == UserById(r.in.uid)
           old == CHOOSE u \in rows : TRUE
           new == [old EXCEPT !.email = Given(r.set.email, @),
                              !.role = Given(r.set.role, @),
                              !.is_active = Given(r.set.is_active, @)]
       IN IF rows = {}
          THEN /\ Reply(p, Response(p, "update_user", r.svc, r.in, 500,
                                    "StaleDataError", NoBody))
               /\ UNCHANGED <<users, roleEdited>>
          ELSE IF \E e \in r.set.email :
                     UniqueViolation(old.username, e, old.id)
          THEN /\ Reply(p, Response(p, "update_user", r.svc, r.in, 500,
                                    "IntegrityError", NoBody))
               /\ UNCHANGED <<users, roleEdited>>
          ELSE /\ users' = (users \ {old}) \cup {new}
               /\ roleEdited' = IF r.set.role = {} THEN roleEdited
                                ELSE roleEdited \cup {old.id}
               /\ Reply(p, Response(p, "update_user", r.svc, r.in, 200, "",
                                    NoBody))
    /\ UNCHANGED <<refresh_tokens, now, nextUser, nextRec, issued, derived,
                   used, registered,
                   catalog>>

\* The {user_id} of the path is a string.  str(uuid) writes the id in
\* canonical form, lower case with hyphens; PostgreSQL reads a uuid from
\* that form and from others as well (upper case, no hyphens, braces).
UuidForms == {"canonical", "upper"}
\* str(admin.id)
str_uuid(id) == [id |-> id, form |-> "canonical"]
\* the uuid that User.id == user_id compares with
uuid_in(text) == text.id

\* a delete_user that leaves the refresh_tokens rows behind
AdminDeleteNoCascade(p, token, user_id) ==
    /\ Ready(p)
    /\ LET in == [token |-> token, uid |-> user_id]
           g == RoleGate("fast", token, {ADMIN}, now)
           uid == uuid_in(user_id)
       IN IF g.status # 0
          THEN /\ Reply(p, Response(p, "delete_user", "fast", in, g.status,
                                    g.detail, NoBody))
               /\ UNCHANGED users
          ELSE IF str_uuid(token.sub) = user_id
          THEN /\ Reply(p, Response(p, "delete_user", "fast", in, 400,
                           "Cannot delete your own account", NoBody))
               /\ UNCHANGED users
          ELSE IF UserById(uid) = {}
          THEN /\ Reply(p, Response(p, "delete_user", "fast", in, 404,
                                    "User not found", NoBody))
               /\ UNCHANGED users
          ELSE /\ users' = users \ UserById(uid)
               /\ Reply(p, Response(p, "delete_user", "fast", in, 200, "",
                                    NoBody))
    /\ UNCHANGED <<refresh_tokens, now, nextUser, nextRec, issued, hist,
                   catalog>>

\* delete_user: the user row goes, and with it every refresh_tokens row
\* that references it (cascade).  The test for the caller's own account
\* compares strings, the query compares uuids.
AdminDelete(p, token, user_id) ==
    /\ Ready(p)
    /\ LET in == [token |-> token, uid |-> user_id]
           g == RoleGate("fast", token, {ADMIN}, now)
           uid == uuid_in(user_id)
       IN IF g.status # 0
          THEN /\ Reply(p, Response(p, "delete_user", "fast", in, g.status,
                                    g.detail, NoBody))
               /\ UNCHANGED <<users, refresh_tokens>>
          ELSE IF str_uuid(token.sub) = user_id
          THEN /\ Reply(p, Response(p, "delete_user", "fast", in, 400,
                           "Cannot delete your own account", NoBody))
               /\ UNCHANGED <<users, refresh_tokens>>
          ELSE IF UserById(uid) = {}
          THEN /\ Reply(p, Response(p, "delete_user", "fast", in, 404,
                                    "User not found", NoBody))
               /\ UNCHANGED <<users, refresh_tokens>>
          ELSE /\ users' = users \ UserById(uid)
               /\ refresh_tokens' =
                      {x \in refresh_tokens : x.user_id # uid}
               /\ Reply(p, Response(p, "delete_user", "fast", in, 200, "",
                                    NoBody))
    /\ UNCHANGED <<catalog, now, nextUser, nextRec, issued, hist>>

\* ------------------------------------------------------- Artist / Song
\* The data services keep Artist and Song in SQL Server (mssql+pyodbc).
\* A row of Song is modelled by its id, title and artistID; released, URL
\* and distance are written and read together with title.  A nullable
\* value is a set: None, or the set of the one value.
None == {}

Names == {"Abba", "Beck"}
Titles == {"Sun", "Moon"}

\* the variables of the authentication service
auth == <<users, refresh_tokens, now, nextUser, nextRec, issued, hist>>

ArtistById(id) == {a \in artists : a.id = id}
SongById(id) == {x \in songs : x.id = id}

\* Artist.from_orm / ArtistSchema.dump
artist_schema(a) == [id |-> a.id, name |-> a.name]

\* Song.from_orm / song_model_to_dict: the column artistID is the field
\* artist_id
song_model_to_dict(x) ==
    [id |-> x.id, title |-> x.title, artist_id |-> x.artistID]

\* a database without the foreign key of Song.artistID
NoForeignKey(artist_id) == FALSE

\* the foreign key Song.artistID -> Artist.id, as the database checks it
\* when a song row with this artistID is written
ForeignKeyViolation(artist_id) ==
    artist_id # None /\ \A a \in artists : {a.id} # artist_id

Max(a, b) == IF a >= b THEN a ELSE b
Min(a, b) == IF a <= b THEN a ELSE b

\* math.ceil(a / b) for a >= 0, b >= 1
ceil(a, b) == (a + b - 1) \div b

total_pages(total_items, page_size) ==
    IF total_items > 0 THEN ceil(total_items, page_size) ELSE 0

\* the response of a list endpoint
create_paginated_response(items, page, page_size, total_items) ==
    [items |-> items, page |-> page, page_size |-> page_size,
     total_items |-> total_items,
     total_pages |-> total_pages(total_items, page_size),
     has_next |-> page < total_pages(total_items, page_size),
     has_prev |-> page > 1]

\* the orders in which a query without ORDER BY may return the rows
Orderings(rows) ==
    {f \in [1..Cardinality(rows) -> rows] :
        \A i, j \in 1..Cardinality(rows) : i # j => f[i] # f[j]}

\* .order_by(Artist.id)
order_by_id(rows) ==
    CHOOSE f \in Orderings(rows) :
        \A i, j \in 1..Cardinality(rows) : i < j => f[i].id < f[j].id

\* .offset(offset).limit(limit) of a result in the order ord
offset_limit(ord, offset, limit) ==
    [i \in 1..Max(0, Min(limit, Len(ord) - offset)) |-> ord[offset + i]]

\* the one list query that has an ORDER BY: Flask, artists
has_order_by(svc, entity) == svc = "flask" /\ entity = "artist"

\* the largest page_size the services accept
MaxPageSize == 100

\* the parameter validation of a list endpoint: "" when it passes
ListValidation(svc, page, page_size) ==
    IF svc = "fast"
    THEN IF page < 1 \/ page_size < 1 \/ page_size > MaxPageSize
         THEN [status |-> 422, detail |-> "validation error"]
         ELSE [status |-> 0, detail |-> ""]
    ELSE IF page < 1
         THEN [status |-> 400, detail |-> "Page must be >= 1"]
         ELSE IF page_size < 1 \/ page_size > MaxPageSize
         THEN [status |-> 400,
               detail |-> "Page size must be between 1 and 100"]
         ELSE [status |-> 0, detail |-> ""]

\* GET /v1/artists and GET /v1/songs: count(), then the page query.  With
\* ORDER BY the page is cut from the rows in id order.  Without it the
\* mssql dialect cannot compile a query with an OFFSET (CompileError, 500);
\* for offset 0 it either fails the same way or emits SELECT TOP n, whose
\* row order the database is free to choose (which of the two depends on
\* the SQLAlchemy release installed).
get_all(p, svc, entity, page, page_size) ==
    /\ Ready(p)
    /\ LET in == [entity |-> entity, page |-> page, page_size |-> page_size]
           rows == IF entity = "artist" THEN artists ELSE songs
           total_items == Cardinality(rows)
           offset == (page - 1) * page_size
           dump(x) == IF entity = "artist" THEN artist_schema(x)
                      ELSE song_model_to_dict(x)
           page_of(ord) ==
               LET cut == offset_limit(ord, offset, page_size)
               IN [i \in 1..Len(cut) |-> dump(cut[i])]
           ok(ord) ==
               Response(p, "list", svc, in, 200, "",
                   create_paginated_response(page_of(ord), page, page_size,
                                             total_items))
           v == ListValidation(svc, page, page_size)
       IN IF v.status # 0
          THEN Reply(p, Response(p, "list", svc, in, v.status, v.detail,
                                 NoBody))
          ELSE IF has_order_by(svc, entity)
          THEN Reply(p, ok(order_by_id(rows)))
          ELSE \/ Reply(p, Response(p, "list", svc, in, 500,
                                    "CompileError", NoBody))
               \/ /\ offset = 0
                  /\ \E ord \in Orderings(rows) : Reply(p, ok(ord))
    /\ UNCHANGED <<catalog, auth>>

get_all_artists(p, svc, page, page_size) ==
    get_all(p, svc, "artist", page, page_size)

get_all_songs(p, svc, page, page_size) ==
    get_all(p, svc, "song", page, page_size)

\* POST /v1/artists: add, commit, refresh; the id is the next IDENTITY
create_artist(p, svc, name) ==
    /\ Ready(p)
    /\ LET row == [id |-> nextArtist, name |-> name]
       IN /\ artists' = artists \cup {row}
          /\ nextArtist' = nextArtist + 1
          /\ Reply(p, Response(p, "create_artist", svc, [name |-> name],
                               201, "", artist_schema(row)))
    /\ UNCHANGED <<songs, nextSong, auth>>

\* PUT /v1/artists/{id}, the query for the row
UpdateArtistBegin(p, svc, id, name) ==
    /\ Ready(p)
    /\ Continue(p, [pc |-> "put_artist", op |-> "update_artist",
                    svc |-> svc, in |-> [id |-> id, name |-> name],
                    found |-> ArtistById(id) # {}])
    /\ UNCHANGED <<catalog, auth>>

\* a PUT that lets the database number the row it creates
UpdateArtistCommitNewId(p) ==
    /\ At(p, "put_artist")
    /\ LET r == req[p]
           row == [id |-> IF r.found THEN r.in.id ELSE nextArtist,
                   name |-> r.in.name]
       IN /\ artists' = (artists \ ArtistById(row.id)) \cup {row}
          /\ nextArtist' = Max(nextArtist, row.id + 1)
          /\ Reply(p, Response(p, "update_artist", r.svc, r.in, 200,
                               "", artist_schema(row)))
    /\ UNCHANGED <<songs, nextSong, auth>>

\* db.commit() of PUT /v1/artists/{id}: UPDATE of the row that was found,
\* or INSERT of a row with the requested id (IDENTITY_INSERT; the
\* IDENTITY value moves up to an inserted id above it).  A row that
\* vanished fails the UPDATE (StaleDataError), a row that appeared fails
\* the INSERT (primary key): 500.
UpdateArtistCommit(p) ==
    /\ At(p, "put_artist")
    /\ LET r == req[p]
           row == [id |-> r.in.id, name |-> r.in.name]
           err(e) == Reply(p, Response(p, "update_artist", r.svc, r.in, 500,
                                       e, NoBody))
       IN IF r.found /\ ArtistById(row.id) = {}
          THEN err("StaleDataError") /\ UNCHANGED <<artists, nextArtist>>
          ELSE IF ~r.found /\ ArtistById(row.id) # {}
          THEN err("IntegrityError") /\ UNCHANGED <<artists, nextArtist>>
          ELSE /\ artists' = (artists \ ArtistById(row.id)) \cup {row}
               /\ nextArtist' = Max(nextArtist, row.id + 1)
               /\ Reply(p, Response(p, "update_artist", r.svc, r.in, 200,
                                    "", artist_schema(row)))
    /\ UNCHANGED <<songs, nextSong, auth>>

\* DELETE /v1/artists/{id}, the query for the row
DeleteArtistBegin(p, svc, id) ==
    /\ Ready(p)
    /\ IF ArtistById(id) = {}
       THEN Reply(p, Response(p, "delete_artist", svc, [id |-> id], 404,
                              "Artist not found", NoBody))
       ELSE Continue(p, [pc |-> "del_artist_load", op |-> "delete_artist",
                         svc |-> svc, in |-> [id |-> id]])
    /\ UNCHANGED <<catalog, auth>>

\* db.delete(db_artist); db.commit(), first half: the relationship
\* Artist.songs has no delete cascade, so the flush loads the songs of
\* the artist in order to detach them
DeleteArtistLoad(p) ==
    /\ At(p, "del_artist_load")
    /\ LET r == req[p]
       IN Continue(p, [pc |-> "del_artist", op |-> r.op, svc |-> r.svc,
                       in |-> r.in,
                       loaded |-> {x.id : x \in {y \in songs :
                                                   y.artistID = {r.in.id}}}])
    /\ UNCHANGED <<catalog, auth>>

\* second half: UPDATE Song SET artistID = NULL for every loaded song,
\* DELETE of the artist, commit.  A loaded song that vanished fails its
\* UPDATE (StaleDataError); a song that still refers to the artist fails
\* the DELETE on the foreign key: 500, nothing is written.
DeleteArtistCommit(p) ==
    /\ At(p, "del_artist")
    /\ LET r == req[p]
           detached == {IF x.id \in r.loaded
                        THEN [x EXCEPT !.artistID = None] ELSE x :
                           x \in songs}
           err(e) == Reply(p, Response(p, "delete_artist", r.svc, r.in, 500,
                                       e, NoBody))
       IN IF \E id \in r.loaded : SongById(id) = {}
          THEN err("StaleDataError") /\ UNCHANGED <<artists, songs>>
          ELSE IF \E x \in detached : x.artistID = {r.in.id}
          THEN err("IntegrityError") /\ UNCHANGED <<artists, songs>>
          ELSE /\ songs' = detached
               /\ artists' = artists \ ArtistById(r.in.id)
               /\ Reply(p, Response(p, "delete_artist", r.svc, r.in, 204,
                                    "", NoBody))
    /\ UNCHANGED <<nextArtist, nextSong, auth>>

\* a POST /v1/songs that leaves the artist to the database
CreateSongBeginNoCheck(p, svc, title, artist_id) ==
    /\ Ready(p)
    /\ Continue(p, [pc |-> "post_song", op |-> "create_song", svc |-> svc,
                    in |-> [title |-> title, artist_id |-> artist_id]])
    /\ UNCHANGED <<catalog, auth>>

\* POST /v1/songs up to its commit: the query for the artist
CreateSongBegin(p, svc, title, artist_id) ==
    /\ Ready(p)
    /\ LET in == [title |-> title, artist_id |-> artist_id]
       IN IF artist_id # None /\ \A a \in artists : {a.id} # artist_id
          THEN Reply(p, Response(p, "create_song", svc, in, 404,
                                 "Artist not found", NoBody))
          ELSE Continue(p, [pc |-> "post_song", op |-> "create_song",
                            svc |-> svc, in |-> in])
    /\ UNCHANGED <<catalog, auth>>

\* db.add(db_song); db.commit(); db.refresh(db_song)
CreateSongCommit(p) ==
    /\ At(p, "post_song")
    /\ LET r == req[p]
           row == [id |-> nextSong, title |-> r.in.title,
                   artistID |-> r.in.artist_id]
       IN IF ForeignKeyViolation(row.artistID)
          THEN /\ Reply(p, Response(p, "create_song", r.svc, r.in, 500,
                                    "IntegrityError", NoBody))
               /\ UNCHANGED <<songs, nextSong>>
          ELSE /\ songs' = songs \cup {row}
               /\ nextSong' = nextSong + 1
               /\ Reply(p, Response(p, "create_song", r.svc, r.in, 201, "",
                                    song_model_to_dict(row)))
    /\ UNCHANGED <<artists, nextArtist, auth>>

\* PUT /v1/songs/{id} up to its commit: the query for the artist, then the
\* query for the song
UpdateSongBegin(p, svc, id, title, artist_id) ==
    /\ Ready(p)
    /\ LET in == [id |-> id, title |-> title, artist_id |-> artist_id]
       IN IF artist_id # None /\ \A a \in artists : {a.id} # artist_id
          THEN Reply(p, Response(p, "update_song", svc, in, 404,
                                 "Artist not found", NoBody))
          ELSE Continue(p, [pc |-> "put_song", op |-> "update_song",
                            svc |-> svc, in |-> in,
                            found |-> SongById(id) # {}])
    /\ UNCHANGED <<catalog, auth>>

\* db.commit() of PUT /v1/songs/{id}: UPDATE of the row that was found or
\* INSERT of a row with the requested id
UpdateSongCommit(p) ==
    /\ At(p, "put_song")
    /\ LET r == req[p]
           row == [id |-> r.in.id, title |-> r.in.title,
                   artistID |-> r.in.artist_id]
           err(e) == Reply(p, Response(p, "update_song", r.svc, r.in, 500,
                                       e, NoBody))
       IN IF r.found /\ SongById(row.id) = {}
          THEN err("StaleDataError") /\ UNCHANGED <<songs, nextSong>>
          ELSE IF (~r.found /\ SongById(row.id) # {})
                  \/ ForeignKeyViolation(row.artistID)
          THEN err("IntegrityError") /\ UNCHANGED <<songs, nextSong>>
          ELSE /\ songs' = (songs \ SongById(row.id)) \cup {row}
               /\ nextSong' = Max(nextSong, row.id + 1)
               /\ Reply(p, Response(p, "update_song", r.svc, r.in, 200, "",
                                    song_model_to_dict(row)))
    /\ UNCHANGED <<artists, nextArtist, auth>>

\* DELETE /v1/songs/{id}
delete_song(p, svc, id) ==
    /\ Ready(p)
    /\ IF SongById(id) = {}
       THEN /\ Reply(p, Response(p, "delete_song", svc, [id |-> id], 404,
                                 "Song not found", NoBody))
            /\ UNCHANGED songs
       ELSE /\ songs' = songs \ SongById(id)
            /\ Reply(p, Response(p, "delete_song", svc, [id |-> id], 204,
                                 "", NoBody))
    /\ UNCHANGED <<artists, nextArtist, nextSong, auth>>

\* ------------------------------------------------------------- the rest
\* the response leaves the server
Deliver ==
    /\ resp # NoResp
    /\ resp' = NoResp
    /\ UNCHANGED <<users, refresh_tokens, now, nextUser, nextRec, issued, req,
                   hist, catalog>>

\* the clock advances by one unit, up to maxTime
Tick(maxTime) ==
    /\ resp = NoResp
    /\ now < maxTime
    /\ now' = now + 1
    /\ resp' = NoResp
    /\ UNCHANGED <<users, refresh_tokens, nextUser, nextRec, issued, req,
                   hist, catalog>>

\* ------------------------------------------------------ specifications
\* The requests of the authentication service, handled by the slots of P.
\* uuid4 and jti values are drawn from counters; a step that would take a
\* value beyond maxUsers / maxRecs is not taken.
AuthStep(P, maxUsers, maxRecs) ==
    \/ \E p \in P, svc \in Services, u \in Usernames, e \in Emails,
          pw \in RegPasswords : RegisterBegin(p, svc, u, e, pw)
    \/ \E p \in P : nextUser <= maxUsers /\ RegisterCommitUser(p)
    \/ \E p \in P : nextRec <= maxRecs /\ RegisterCommitToken(p)
    \/ \E p \in P, svc \in Services, u \in Usernames,
          pw \in LoginPasswords : LoginBegin(p, svc, u, pw)
    \/ \E p \in P : nextRec <= maxRecs /\ LoginCommit(p)
    \/ \E p \in P, svc \in Services, t \in Presentable :
          RefreshBegin(p, svc, t)
    \/ \E p \in P : nextRec <= maxRecs /\ RefreshCommit(p)
    \/ \E p \in P, svc \in Services, t \in Presentable : Logout(p, svc, t)

\* requests to endpoints behind the Authorization Gate
GateStep(P) ==
    \E p \in P, svc \in Services, t \in Presentable,
       allowed \in {UserRole, {ADMIN}, {USER}} :
          GateRequest(p, svc, t, allowed)

\* requests to GET /auth/me
MeStep(P) ==
    \E p \in P, svc \in Services, t \in Presentable : Me(p, svc, t)

\* the admin user management of the FastAPI service, called with an
\* access token (GateStep covers the other credentials)
AdminCreateStep(P, maxUsers) ==
    \/ \E p \in P, t \in AccessTokens, u \in Usernames, e \in Emails,
          pw \in RegPasswords, role \in UserRole :
          AdminCreateBegin(p, t, u, e, pw, role)
    \/ \E p \in P : nextUser <= maxUsers /\ AdminCreateCommit(p)

\* updates is the set of request bodies tried
AdminUpdateStep(P, maxUsers, updates) ==
    \/ \E p \in P, t \in AccessTokens, uid \in 1..maxUsers, u \in updates :
          AdminUpdateBegin(p, t, uid, u.email, u.role, u.is_active)
    \/ \E p \in P : AdminUpdateCommit(p)

AdminDeleteStep(P, maxUsers) ==
    \E p \in P, t \in AccessTokens, uid \in 1..maxUsers,
       form \in UuidForms :
        AdminDelete(p, t, [id |-> uid, form |-> form])

\* request bodies that set the role or the active flag
RoleUpdates ==
    {[email |-> {}, role |-> {r}, is_active |-> {}] : r \in UserRole}
ActiveUpdates ==
    {[email |-> {}, role |-> {}, is_active |-> {a}] : a \in BOOLEAN}
\* request bodies that set the email
EmailUpdates ==
    {[email |-> {e}, role |-> {}, is_active |-> {}] : e \in Emails}

\* the authentication service and the gate, one request at a time, the
\* clock running
Next ==
    \/ AuthStep({"p1"}, MaxUsers, MaxRecs)
    \/ GateStep({"p1"})
    \/ Deliver
    \/ Tick(MaxTime)

Spec == Init /\ [][Next]_vars

\* the gate and the admin user management, one request at a time, the
\* clock running; alice registers through the Flask service
NextGate ==
    \/ RegisterBegin("p1", "flask", "alice", "alice@x.com", "Passw0rd")
    \/ nextUser <= MaxUsersGate /\ RegisterCommitUser("p1")
    \/ nextRec <= MaxRecsGate /\ RegisterCommitToken("p1")
    \/ \E svc \in Services, u \in Usernames, pw \in LoginPasswords :
          LoginBegin("p1", svc, u, pw)
    \/ nextRec <= MaxRecsGate /\ LoginCommit("p1")
    \/ GateStep({"p1"})
    \/ MeStep({"p1"})
    \/ AdminUpdateStep({"p1"}, MaxUsersGate, RoleUpdates \cup ActiveUpdates)
    \/ AdminDeleteStep({"p1"}, MaxUsersGate)
    \/ Deliver
    \/ Tick(MaxTimeGate)

SpecGate == Init /\ [][NextGate]_vars

\* two requests of the authentication service at a time, the clock standing
NextConc ==
    \/ AuthStep(Procs, MaxUsersConc, MaxRecsConc)
    \/ Deliver

SpecConc == Init /\ [][NextConc]_vars

\* two requests at a time, among them the admin user management
NextAdmin ==
    \/ \E p \in Procs, svc \in Services, u \in Usernames, e \in Emails,
          pw \in RegPasswords : RegisterBegin(p, svc, u, e, pw)
    \/ \E p \in Procs : nextUser <= MaxUsersAdmin /\ RegisterCommitUser(p)
    \/ \E p \in Procs : nextRec <= MaxRecsAdmin /\ RegisterCommitToken(p)
    \/ \E p \in Procs, pw \in RegPasswords :
          LoginBegin(p, "flask", "admin", pw)
    \/ \E p \in Procs : nextRec <= MaxRecsAdmin /\ LoginCommit(p)
    \/ AdminCreateStep(Procs, MaxUsersAdmin)
    \/ AdminUpdateStep(Procs, MaxUsersAdmin, EmailUpdates)
    \/ Deliver

SpecAdmin == Init /\ [][NextAdmin]_vars

\* two requests at a time: the Flask authentication service against
\* delete_user
NextDelete ==
    \/ \E p \in Procs :
          RegisterBegin(p, "flask", "alice", "alice@x.com", "Passw0rd")
    \/ \E p \in Procs : nextUser <= MaxUsersDelete /\ RegisterCommitUser(p)
    \/ \E p \in Procs : nextRec <= MaxRecsDelete /\ RegisterCommitToken(p)
    \/ \E p \in Procs, u \in Usernames, pw \in RegPasswords :
          LoginBegin(p, "flask", u, pw)
    \/ \E p \in Procs : nextRec <= MaxRecsDelete /\ LoginCommit(p)
    \/ \E p \in Procs, t \in Presentable : RefreshBegin(p, "flask", t)
    \/ \E p \in Procs : nextRec <= MaxRecsDelete /\ RefreshCommit(p)
    \/ AdminDeleteStep(Procs, MaxUsersDelete)
    \/ Deliver

SpecDelete == Init /\ [][NextDelete]_vars

\* the requests that create and update Artist and Song, handled by the
\* slots of P; ids are requested up to maxArtists / maxSongs, and a POST
\* that would take an id beyond them is not made
CatalogStep(P, svcs, names, titles, maxArtists, maxSongs) ==
    \/ \E p \in P, svc \in svcs, n \in names :
          nextArtist <= maxArtists /\ create_artist(p, svc, n)
    \/ \E p \in P, svc \in svcs, id \in 1..maxArtists, n \in names :
          UpdateArtistBegin(p, svc, id, n)
    \/ \E p \in P : UpdateArtistCommit(p)
    \/ \E p \in P, svc \in svcs, t \in titles,
          a \in {None} \cup {{id} : id \in 1..maxArtists} :
          CreateSongBegin(p, svc, t, a)
    \/ \E p \in P : nextSong <= maxSongs /\ CreateSongCommit(p)
    \/ \E p \in P, svc \in svcs, id \in 1..maxSongs, t \in titles,
          a \in {None} \cup {{id2} : id2 \in 1..maxArtists} :
          UpdateSongBegin(p, svc, id, t, a)
    \/ \E p \in P : UpdateSongCommit(p)

\* the requests that delete
DeleteStep(P, svcs, maxArtists, maxSongs) ==
    \/ \E p \in P, svc \in svcs, id \in 1..maxArtists :
          DeleteArtistBegin(p, svc, id)
    \/ \E p \in P : DeleteArtistLoad(p)
    \/ \E p \in P : DeleteArtistCommit(p)
    \/ \E p \in P, svc \in svcs, id \in 1..maxSongs : delete_song(p, svc, id)

\* the page sizes tried: around both ends of 1..MaxPageSize
PageSizes == {0, 1, 2, MaxPageSize, MaxPageSize + 1}

\* requests to the list endpoints
ListStep(P, maxPage) ==
    \/ \E p \in P, svc \in Services, page \in 0..maxPage,
          page_size \in PageSizes : get_all_artists(p, svc, page, page_size)
    \/ \E p \in P, svc \in Services, page \in 0..maxPage,
          page_size \in PageSizes : get_all_songs(p, svc, page, page_size)

\* the data services, one request at a time: creates and updates
NextCatalog ==
    \/ CatalogStep({"p1"}, Services, Names, Titles, MaxArtists, MaxSongs)
    \/ Deliver

SpecCatalog == Init /\ [][NextCatalog]_vars

\* the list endpoints over a changing collection, one request at a time
NextList ==
    \/ \E svc \in Services :
          nextArtist <= MaxArtistsList /\ create_artist("p1", svc, "Abba")
    \/ \E svc \in Services : CreateSongBegin("p1", svc, "Sun", None)
    \/ nextSong <= MaxSongsList /\ CreateSongCommit("p1")
    \/ DeleteStep({"p1"}, Services, MaxArtistsList, MaxSongsList)
    \/ ListStep({"p1"}, MaxPage)
    \/ Deliver

SpecList == Init /\ [][NextList]_vars

\* two requests at a time: song create, song PUT and artist PUT against
\* the deletion of artists
NextCatalogConc ==
    \/ \E p \in Procs, id \in 1..MaxArtistsConc :
          UpdateArtistBegin(p, "fast", id, "Abba")
    \/ \E p \in Procs : UpdateArtistCommit(p)
    \/ \E p \in Procs, a \in {None} \cup {{id} : id \in 1..MaxArtistsConc} :
          CreateSongBegin(p, "fast", "Sun", a)
    \/ \E p \in Procs : nextSong <= MaxSongsConc /\ CreateSongCommit(p)
    \/ \E p \in Procs, id \in 1..MaxSongsConc,
          a \in {None} \cup {{id2} : id2 \in 1..MaxArtistsConc} :
          UpdateSongBegin(p, "fast", id, "Sun", a)
    \/ \E p \in Procs : UpdateSongCommit(p)
    \/ \E p \in Procs, id \in 1..MaxArtistsConc :
          DeleteArtistBegin(p, "fast", id)
    \/ \E p \in Procs : DeleteArtistLoad(p)
    \/ \E p \in Procs : DeleteArtistCommit(p)
    \/ Deliver

SpecCatalogConc == Init /\ [][NextCatalogConc]_vars

\* ================================================================ claims

\* C1: once a Refresh has succeeded with a refresh token, every Refresh
\* that presents the same token afterwards is answered 401, and it never
\* gets as far as the rotation.
C1_NoReuseAfterRefresh ==
    /\ (resp.op = "refresh" /\ resp.in.afterUse) => resp.status = 401
    /\ \A p \in Procs :
          req[p].pc = "refresh_commit" => ~req[p].in.afterUse

\* a token is presented again after its rotation, to the Flask service
C1_Witness ==
    /\ resp.op = "refresh"
    /\ resp.svc = "flask"
    /\ resp.in.afterUse
    /\ resp.status = 401
    /\ \E r \in RecByHash(get_token_hash(resp.in.token)) : r.revoked

\* C2: two Refresh calls with the same refresh token never both insert a
\* new record from the same parent record (exactly one of them succeeds).
C2_OneChildPerParent ==
    \A a \in derived, b \in derived : a[1] = b[1] => a[2] = b[2]

\* C3: a Refresh with an unexpired, correctly signed refresh token whose
\* record is unrevoked and unexpired and whose identity is present and
\* active answers 200.  (A Refresh that is not answered 200 leaves the
\* store and the clock as they were when it looked, so the conditions are
\* read in the state of the answer.)
C3_RefreshSucceeds ==
    (/\ resp.op = "refresh"
     /\ verify_token(resp.in.token, TOKEN_TYPE_REFRESH, now) = "ok"
     /\ \E r \in RecByHashUser(get_token_hash(resp.in.token),
                               resp.in.token.sub) :
           ~r.revoked /\ r.expires_at > now
     /\ \E u \in UserById(resp.in.token.sub) : u.is_active)
    => resp.status = 200

\* C4: a Register that passes the username and email checks answers 201
\* with two distinct tokens, and the identity and a valid record of the
\* refresh token are persisted.
C4_RegisterSucceeds ==
    (resp.op = "register" /\ resp.status # 400) =>
        /\ resp.status = 201
        /\ resp.body.access_token # resp.body.refresh_token
        /\ UserByName(resp.in.username) # {}
        /\ \E r \in RecByHash(get_token_hash(resp.body.refresh_token)) :
              is_valid(r, now)

\* C5: a Register whose username or email is in use when it looks is
\* answered 400, and a Register that fails persists nothing: the step that
\* answers a Register with anything but 201 leaves users and refresh_tokens
\* as they were.
C5_FailedRegisterPersistsNothing ==
    [][(resp = NoResp /\ resp'.op = "register") =>
          /\ ((/\ \A p \in Procs : req[p] = Idle
               /\ \/ UserByName(resp'.in.username) # {}
                  \/ UserByEmail(resp'.in.email) # {})
              => resp'.status = 400)
          /\ (resp'.status # 201 => store' = store)]_vars

\* C6: no two identities share a username, and no two share an email.
C6_UniqueUsernameEmail ==
    \A a \in users, b \in users :
        (a.username = b.username \/ a.email = b.email) => a = b

\* an email change lost the race against an insert of the same email
C6_Witness ==
    /\ resp.op = "update_user"
    /\ resp.status = 500
    /\ resp.detail = "IntegrityError"
    /\ \E e \in resp.in.email : \E u \in UserByEmail(e) : u.id # resp.in.uid

\* C7: the gate answers 403 whenever the access token verifies and the
\* identity it names is inactive.
C7_InactiveRejected ==
    (/\ resp.op = "gate"
     /\ verify_token(resp.in.token, TOKEN_TYPE_ACCESS, now) = "ok"
     /\ \E u \in UserById(resp.in.token.sub) : ~u.is_active)
    => resp.status = 403

\* an unexpired token, issued to an identity that was deactivated later
C7_Witness ==
    /\ resp.op = "gate"
    /\ resp.in.token \in issued
    /\ verify_token(resp.in.token, TOKEN_TYPE_ACCESS, now) = "ok"
    /\ \E u \in UserById(resp.in.token.sub) : ~u.is_active
    /\ resp.status = 403

\* C8: role enforcement answers 403 whenever the role of the identity in
\* the store, at the time of the request, is not in the allowed set.
C8_StoreRoleEnforced ==
    (/\ resp.op = "gate"
     /\ verify_token(resp.in.token, TOKEN_TYPE_ACCESS, now) = "ok"
     /\ \E u \in UserById(resp.in.token.sub) :
           u.is_active /\ u.role \notin resp.in.allowed)
    => resp.status = 403

\* C9: an identity made by Register has role user until an admin update
\* sets its role, and no access token with role admin is issued for it
\* before that.
C9_RegisterMakesUsers ==
    /\ \A u \in users :
          (u.id \in registered /\ u.id \notin roleEdited) => u.role = USER
    /\ \A t \in issued :
          (t.type = TOKEN_TYPE_ACCESS /\ t.role = ADMIN)
              => (t.sub \notin registered \/ t.sub \in roleEdited)

\* a registered identity holds an access token
C9_Witness ==
    \E u \in users, t \in issued :
        /\ u.id \in registered
        /\ t.type = TOKEN_TYPE_ACCESS
        /\ t.sub = u.id
        /\ t.role = USER

\* C10: Login answers an unknown username and a wrong password alike, 401
\* with the same message, whether the identity is active or not.
C10_LoginUniformFailure ==
    (/\ resp.op = "login"
     /\ \A u \in UserByName(resp.in.username) :
           ~verify_password(resp.in.password, u.password_hash))
    => /\ resp.status = 401
       /\ resp.detail = "Invalid username or password"

\* a wrong password for an inactive identity
C10_Witness ==
    /\ resp.op = "login"
    /\ resp.status = 401
    /\ \E u \in UserByName(resp.in.username) :
          /\ ~u.is_active
          /\ ~verify_password(resp.in.password, u.password_hash)

\* C11: a Login for an identity that is inactive when the handler looks is
\* answered 403 when the password verifies and 401 when it does not; the
\* answer carries no token, and the step that gives it persists no refresh
\* token record and issues no token.
C11_InactiveLogin ==
    [][(/\ resp = NoResp
        /\ resp'.op = "login"
        /\ \E u \in UserByName(resp'.in.username) : ~u.is_active)
       => /\ \A u \in UserByName(resp'.in.username) :
                resp'.status =
                    IF verify_password(resp'.in.password, u.password_hash)
                    THEN 403 ELSE 401
          /\ resp'.body = NoBody
          /\ refresh_tokens' = refresh_tokens
          /\ issued' = issued]_vars

\* the right password for an inactive identity
C11_Witness ==
    /\ resp.op = "login"
    /\ resp.status = 403
    /\ resp.body = NoBody
    /\ \E u \in UserByName(resp.in.username) :
          /\ ~u.is_active
          /\ verify_password(resp.in.password, u.password_hash)

\* C12: Logout answers 200 with its message for every token string: one
\* with a valid record, one whose record is revoked or expired, one that
\* was never issued; and so again when it is repeated.
C12_LogoutAlwaysSucceeds ==
    resp.op = "logout" =>
        /\ resp.status = 200
        /\ resp.detail = "Logged out successfully"

\* a Logout with a token that was never issued
C12_Witness ==
    /\ resp.op = "logout"
    /\ resp.in.token \notin issued
    /\ RecByHash(get_token_hash(resp.in.token)) = {}
    /\ resp.status = 200

\* C13: Logout revokes the record whose hash matches the token and changes
\* no other record and no identity; a revoked record stays revoked; and a
\* Refresh with a token whose record is revoked is answered 401 and changes
\* nothing.  So every Refresh after the Logout fails.
C13_LogoutRevokes ==
    [][/\ (resp = NoResp /\ resp'.op = "logout") =>
             /\ users' = users
             /\ refresh_tokens' =
                   {IF x.token_hash = get_token_hash(resp'.in.token)
                    THEN [x EXCEPT !.revoked = TRUE]
                    ELSE x : x \in refresh_tokens}
             /\ \A x \in refresh_tokens' :
                   x.token_hash = get_token_hash(resp'.in.token)
                       => x.revoked
       /\ \A x \in refresh_tokens, y \in refresh_tokens' :
             (x.id = y.id /\ x.revoked) => y.revoked
       /\ (/\ resp = NoResp
           /\ resp'.op = "refresh"
           /\ RecByHash(get_token_hash(resp'.in.token)) # {}
           /\ \A x \in RecByHash(get_token_hash(resp'.in.token)) :
                 x.revoked)
          => (resp'.status = 401 /\ store' = store)]_vars

\* a Refresh with an unexpired token that a Logout, not a rotation, revoked
C13_Witness ==
    /\ resp.op = "refresh"
    /\ resp.svc = "flask"
    /\ resp.in.token \in issued
    /\ resp.in.token \notin used
    /\ verify_token(resp.in.token, TOKEN_TYPE_REFRESH, now) = "ok"
    /\ \E x \in RecByHash(get_token_hash(resp.in.token)) :
          x.revoked /\ x.expires_at > now
    /\ resp.status = 401

\* C14: an access token presented to Refresh is answered 401 and never
\* reaches the rotation, and a refresh token presented to the gate as the
\* bearer credential is answered 401, also when the token is correctly
\* signed and unexpired.
C14_TypeConfusionRejected ==
    /\ (resp.op = "refresh" /\ resp.in.token.type = TOKEN_TYPE_ACCESS)
          => resp.status = 401
    /\ \A p \in Procs :
          req[p].pc = "refresh_commit"
              => req[p].in.token.type = TOKEN_TYPE_REFRESH
    /\ (resp.op = "gate" /\ resp.in.token.type = TOKEN_TYPE_REFRESH)
          => resp.status = 401

\* an issued, unexpired refresh token of an active identity at the gate
C14_Witness ==
    /\ resp.op = "gate"
    /\ resp.in.token \in issued
    /\ resp.in.token.type = TOKEN_TYPE_REFRESH
    /\ decode_token(resp.in.token, now) = "ok"
    /\ \E u \in UserById(resp.in.token.sub) : u.is_active
    /\ resp.status = 401

\* C15: an issued access token verifies as an access token at every clock
\* value before its exp and fails with ExpiredToken at every clock value
\* from its exp on (so, the clock never running backwards, it never
\* verifies again), and the gate answers accordingly.
C15_AccessTokenExpiry ==
    /\ \A t \in AccessTokens, c \in 0..(MaxTime + ACCESS_TOKEN_EXPIRE + 1) :
          verify_token(t, TOKEN_TYPE_ACCESS, c) =
              IF c < t.exp THEN "ok" ELSE "expired"
    /\ (resp.op = "gate" /\ resp.in.token \in AccessTokens
            /\ now >= resp.in.token.exp)
          => (resp.status = 401 /\ resp.detail = "Token has expired")

\* the gate is asked at the very clock value of the token's exp
C15_Witness ==
    /\ resp.op = "gate"
    /\ resp.in.token \in AccessTokens
    /\ now = resp.in.token.exp
    /\ resp.status = 401
    /\ resp.detail = "Token has expired"

\* C16: the gate checks in this order: the token (401 when it is expired
\* or invalid), the identity of its subject (401 when there is none), the
\* active flag (403); it lets the request through only when none of these
\* applies, and then only the role check can still reject it (403).
C16_GateOrder ==
    resp.op = "gate" =>
        LET token == resp.in.token
            rows == UserById(token.sub)
        IN IF verify_token(token, TOKEN_TYPE_ACCESS, now) # "ok"
           THEN resp.status = 401
           ELSE IF rows = {}
           THEN resp.status = 401
           ELSE IF \E u \in rows : ~u.is_active
           THEN resp.status = 403
           ELSE /\ resp.status \in {200, 403}
                /\ resp.in.allowed = UserRole => resp.status = 200

\* an unexpired token of an identity that was deleted after it was issued
C16_Witness ==
    /\ resp.op = "gate"
    /\ resp.in.token \in issued
    /\ verify_token(resp.in.token, TOKEN_TYPE_ACCESS, now) = "ok"
    /\ UserById(resp.in.token.sub) = {}
    /\ resp.status = 401
    /\ resp.detail = "User not found"

\* C17: GET /auth/me answers 401 without a valid access token, 403 for an
\* inactive identity, and 200 with the identity's id, username, email, role
\* and is_active exactly when the token verifies for an existing, active
\* identity.
C17_MeBehindGate ==
    resp.op = "me" =>
        LET token == resp.in.token
            rows == UserById(token.sub)
        IN IF verify_token(token, TOKEN_TYPE_ACCESS, now) # "ok"
           THEN resp.status = 401
           ELSE IF rows = {}
           THEN resp.status = 401
           ELSE IF \E u \in rows : ~u.is_active
           THEN resp.status = 403
           ELSE /\ resp.status = 200
                /\ \E u \in rows :
                      resp.body = [id |-> u.id, username |-> u.username,
                                   email |-> u.email, role |-> u.role,
                                   is_active |-> u.is_active]

\* C19: no operation revokes an access token: whatever Logout and Refresh
\* did to the refresh token records of its identity, the gate accepts an
\* issued access token at every time before its exp, as long as the
\* identity exists and is active.
C19_AccessTokenNotRevoked ==
    (/\ resp.op = "gate"
     /\ resp.in.allowed = UserRole
     /\ resp.in.token \in AccessTokens
     /\ now < resp.in.token.exp
     /\ \E u \in UserById(resp.in.token.sub) : u.is_active)
    => resp.status = 200

\* the gate accepts the token although every refresh token record of its
\* identity has been revoked since
C19_Witness ==
    /\ resp.op = "gate"
    /\ resp.in.token \in AccessTokens
    /\ now < resp.in.token.exp
    /\ resp.status = 200
    /\ \E r \in refresh_tokens : r.user_id = resp.in.token.sub
    /\ \A r \in refresh_tokens :
          r.user_id = resp.in.token.sub => r.revoked

\* C20: delete_user called by an admin (a caller the gate lets through as
\* admin) for the caller's own identity is answered with an error and
\* changes no identity and no record; called for another identity that
\* exists it answers 200 and that identity is gone.
C20_NoSelfDelete ==
    [][(/\ resp = NoResp
        /\ resp'.op = "delete_user"
        /\ verify_token(resp'.in.token, TOKEN_TYPE_ACCESS, now) = "ok"
        /\ \E u \in UserById(resp'.in.token.sub) :
              u.is_active /\ u.role = ADMIN)
       => IF uuid_in(resp'.in.uid) = resp'.in.token.sub
          THEN /\ resp'.status >= 400
               /\ store' = store
          ELSE IF UserById(uuid_in(resp'.in.uid)) # {}
          THEN /\ resp'.status = 200
               /\ users' = users \ UserById(uuid_in(resp'.in.uid))
          ELSE /\ resp'.status = 404
               /\ store' = store]_vars

\* C18: every refresh token record references an existing identity (the
\* delete of an identity takes its records with it, and no record is
\* inserted for an identity that is gone), and a Refresh with a token of an
\* identity that is gone is answered 401.
C18_RecordsHaveOwner ==
    /\ \A r \in refresh_tokens : UserById(r.user_id) # {}
    /\ (resp.op = "refresh" /\ UserById(resp.in.token.sub) = {})
          => resp.status = 401

\* an unexpired refresh token, issued to an identity deleted since, is
\* presented to Refresh
C18_Witness ==
    /\ resp.op = "refresh"
    /\ resp.in.token \in issued
    /\ verify_token(resp.in.token, TOKEN_TYPE_REFRESH, now) = "ok"
    /\ UserById(resp.in.token.sub) = {}
    /\ RecByHash(get_token_hash(resp.in.token)) = {}
    /\ resp.status = 401

\* C25: rotation is atomic.  In no committed state are the record of a
\* refresh token that a successful Refresh was called with and the record
\* of the token that Refresh minted both valid, and in no committed state
\* is the old record revoked while the new record is missing.
C25_RotationAtomic ==
    \A d \in derived :
        LET old == RecById(d[1])
            new == RecById(d[2])
        IN /\ ~\E a \in old, b \in new : is_valid(a, now) /\ is_valid(b, now)
           /\ (\E a \in old : a.revoked) => new # {}

\* a rotation was committed: the old record is revoked, the new one valid
C25_Witness ==
    \E d \in derived :
        /\ \E a \in RecById(d[1]) : a.revoked
        /\ \E b \in RecById(d[2]) : is_valid(b, now)


\* C26: the revoked flag is monotonic.  No step changes the revoked flag
\* of a record from true to false, and a record that is invalid (revoked,
\* or at or past expires_at) before a step is invalid after it.
C26_RevokedMonotonic ==
    [][\A x \in refresh_tokens, y \in refresh_tokens' :
          x.id = y.id =>
             /\ x.revoked => y.revoked
             /\ ~is_valid(x, now) => ~is_valid(y, now')]_vars

\* a record revoked by a logout, and a record that expired unrevoked
C26_Witness ==
    /\ resp.op = "logout"
    /\ \E x \in refresh_tokens :
          x.revoked /\ x.token_hash = get_token_hash(resp.in.token)
    /\ \E x \in refresh_tokens : ~x.revoked /\ x.expires_at <= now


\* C27: Refresh succeeds only with a valid record.  A Refresh passes its
\* checks only if, when it is called, a record exists whose token_hash is
\* the hash of the presented token and whose user_id is the token's
\* subject, unrevoked and with expires_at strictly later than now; a 200
\* comes only from a Refresh that passed the checks; and a Refresh called
\* when no such record exists (expires_at = now included) answers 401.
C27_RefreshNeedsValidRecord ==
    [][LET Valid(tok) ==
               \E x \in RecByHashUser(get_token_hash(tok), tok.sub) :
                   ~x.revoked /\ x.expires_at > now
       IN /\ \A p \in Procs :
                (req[p] = Idle /\ req'[p] # Idle /\ req'[p].op = "refresh")
                    => Valid(req'[p].in.token)
          /\ (resp'.op = "refresh" /\ resp'.status = 200)
                => \E p \in Procs : /\ req[p].pc = "refresh_commit"
                                     /\ req[p].in = resp'.in
          /\ (resp'.op = "refresh" /\ req' = req
                 /\ ~Valid(resp'.in.token))
                => resp'.status = 401]_vars

\* a token minted by a successful Refresh is presented when its record,
\* not revoked, has expires_at = now: 401
C27_Witness ==
    /\ resp.op = "refresh"
    /\ resp.svc = "flask"
    /\ resp.status = 401
    /\ \E x \in RecByHashUser(get_token_hash(resp.in.token),
                               resp.in.token.sub) :
          /\ ~x.revoked
          /\ x.expires_at = now
          /\ \E d \in derived : d[2] = x.id


\* C28: Register is one logical transaction.  When a Register has ended
\* with anything but success (and not with the 400 of a name in use), no
\* identity with the requested username is in the store, so the username
\* can be registered again; and every identity that a finished Register
\* created has a refresh token record.
C28_RegisterAllOrNothing ==
    /\ (resp.op = "register" /\ resp.status \notin {201, 400})
          => UserByName(resp.in.username) = {}
    /\ \A u \in users :
          (/\ u.id \in registered
           /\ \A p \in Procs : req[p] = Idle)
             => \E r \in refresh_tokens : r.user_id = u.id


\* C29: a Refresh that does not succeed leaves the store unchanged.  The
\* step that answers a Refresh with anything but 200 changes no identity
\* and no record, inserts no record, and leaves a presented token that
\* was valid still valid; the steps of a Refresh before its commit write
\* nothing.
C29_FailedRefreshFrame ==
    [][/\ (resp = NoResp /\ resp'.op = "refresh" /\ resp'.status # 200)
            => /\ store' = store
               /\ nextRec' = nextRec
               /\ \A x \in RecByHash(get_token_hash(resp'.in.token)) :
                     is_valid(x, now) =>
                        x \in refresh_tokens' /\ is_valid(x, now')
       /\ \A p \in Procs :
             (req[p] = Idle /\ req'[p] # Idle /\ req'[p].op = "refresh")
                => store' = store]_vars

\* the FastAPI Refresh has failed on a token whose record is valid and
\* whose identity is active: the internal error after the checks
C29_Witness ==
    /\ resp.op = "refresh"
    /\ resp.svc = "fast"
    /\ resp.status = 401
    /\ \E x \in RecByHashUser(get_token_hash(resp.in.token),
                               resp.in.token.sub) : is_valid(x, now)
    /\ \E u \in UserById(resp.in.token.sub) : u.is_active
    /\ verify_token(resp.in.token, TOKEN_TYPE_REFRESH, now) = "ok"


\* C21: pagination arithmetic.  A list request with page >= 1 and
\* 1 <= page_size <= 100 over a collection of total_items rows is answered
\* with total_pages = ceil(total_items / page_size) (0 for the empty
\* collection), has_next = (page < total_pages), has_prev = (page > 1) and
\* exactly max(0, min(page_size, total_items - (page-1)*page_size)) items;
\* a page beyond the last has no items and has_next false.
C21_Pagination ==
    (/\ resp.op = "list"
     /\ resp.in.page >= 1
     /\ resp.in.page_size >= 1
     /\ resp.in.page_size <= 100)
    => LET page == resp.in.page
           page_size == resp.in.page_size
           total_items == IF resp.in.entity = "artist"
                          THEN Cardinality(artists) ELSE Cardinality(songs)
           pages == IF total_items = 0 THEN 0
                    ELSE CHOOSE n \in 1..total_items :
                            /\ n * page_size >= total_items
                            /\ (n - 1) * page_size < total_items
           rest == total_items - (page - 1) * page_size
           count == IF rest <= 0 THEN 0
                    ELSE IF rest < page_size THEN rest ELSE page_size
       IN /\ resp.status = 200
          /\ resp.body.total_items = total_items
          /\ resp.body.total_pages = pages
          /\ resp.body.has_next = (page < pages)
          /\ resp.body.has_prev = (page > 1)
          /\ Len(resp.body.items) = count
          /\ page > pages => resp.body.items = <<>> /\ ~resp.body.has_next

\* C22: the list endpoints return the items of a page in ascending id
\* order, in both services.
C22_AscendingIds ==
    (/\ resp.op = "list"
     /\ resp.in.page >= 1
     /\ resp.in.page_size >= 1
     /\ resp.in.page_size <= 100)
    => /\ resp.status = 200
       /\ \A i, j \in 1..Len(resp.body.items) :
             i < j => resp.body.items[i].id < resp.body.items[j].id


C24_SongArtistChecked ==
    [][(resp = NoResp /\ resp'.op \in {"create_song", "update_song"})
         => LET in == resp'.in
                missing == /\ in.artist_id # None
                           /\ \A a \in artists : {a.id} # in.artist_id
            IN IF missing
               THEN /\ resp'.status = 404
                    /\ catalog' = catalog
               ELSE /\ resp'.status =
                         IF resp'.op = "create_song" THEN 201 ELSE 200
                    /\ \E x \in songs' : /\ x.id = resp'.body.id
                                         /\ x.title = in.title
                                         /\ x.artistID = in.artist_id
                    /\ resp'.body.artist_id = in.artist_id]_vars

\* a PUT of an existing song with the id of no artist, while another
\* artist exists, was answered 404, and a song without artist is stored
C24_Witness ==
    /\ resp.op = "update_song"
    /\ resp.status = 404
    /\ SongById(resp.in.id) # {}
    /\ artists # {}
    /\ \E x \in songs : x.artistID = None


\* C30: referential integrity of Song.artistID.  In every reachable state
\* each song's artistID is null or the id of an existing artist, whatever
\* the interleaving of song creates, song PUTs, artist PUTs and artist
\* deletions.
C30_SongsReferToArtists ==
    \A x \in songs :
        x.artistID = None \/ \E a \in artists : {a.id} = x.artistID

\* a song create or PUT passed its artist check and then failed at its
\* commit, the artist having been deleted in between, while a song that
\* had an artist is stored
C30_Witness ==
    /\ resp.op \in {"create_song", "update_song"}
    /\ resp.status = 500
    /\ resp.in.artist_id # None
    /\ \A a \in artists : {a.id} # resp.in.artist_id
    /\ songs # {}


====
